---- MODULE Spec2Model ----
(***************************************************************************)
(* The recording / backend-lifecycle state machine of src/src/ui.rs.       *)
(*                                                                         *)
(* One interactive (GTK main-loop) thread owns State, RuntimeState and the *)
(* menu action; every handler and every glib timeout callback runs on it   *)
(* atomically.  Each transcription, model load and model download runs on  *)
(* its own std::thread and reports over its own mpsc channel, which a      *)
(* glib timeout callback polls.  A background job and the callback that    *)
(* polls it are one element of trans / loads / dls; the element is removed *)
(* when the callback returns ControlFlow::Break (the receiver is dropped). *)
(*                                                                         *)
(* Not modelled: widget rendering (CSS classes, status label text,         *)
(* notification sound), window placement, the history dialog.              *)
(***************************************************************************)
EXTENDS Integers, Sequences, FiniteSets

VARIABLES
    state,          \* State: "Idle" | "Recording" | "Processing"
    active_service, \* RuntimeState.active_service: "Api" | "Local"
    local_whisper,  \* RuntimeState.local_whisper: "None" | "Some"
    downloading,    \* RuntimeState.downloading
    actionState,    \* state of the stateful menu action: "api" | "local"
    apiKey,         \* config.api_key.is_some()
    cfgService,     \* config.transcription_service
    dbMode,         \* settings row "transcription_mode": "none" | "api" | "local" | "other"
    modelFile,      \* file at config.whisper_model_path: "none" | "complete" | "partial"
    partFile,       \* file at <model>.part: "none" | "partial" | "complete"
    sessions,       \* captures begun (rec.start() returned Ok) with no rec.stop() call yet
    trans,          \* transcription threads with their result poll
    loads,          \* model-load threads with their result poll
    dls,            \* download threads with their message poll
    historyAppends, \* calls of db.insert made so far
    crashed,        \* the interactive thread panicked (an unwrap on None)
    lastSwitch,     \* history: the last accepted backend switch of this run, and how it went
    ev,             \* the handler or thread step that ran last, and the branch it took
    stt             \* one call of LocalWhisper::transcribe or of resample (local_stt.rs)

vars == <<state, active_service, local_whisper, downloading, actionState, apiKey,
          cfgService, dbMode, modelFile, partFile, sessions, trans, loads, dls,
          historyAppends, crashed, lastSwitch, ev, stt>>

\* Everything but the observation of the last step.
progVars == <<state, active_service, local_whisper, downloading, actionState, apiKey,
              cfgService, dbMode, modelFile, partFile, sessions, trans, loads, dls,
              historyAppends, crashed, lastSwitch>>

(***************************************************************************)
(* Bounds of the model.                                                    *)
(***************************************************************************)
\* Load threads that may be outstanding together (the code has no limit).
MaxLoads == 2
\* Chunks a download reads before the stream must end or fail.
MaxChunks == 2
\* db.insert calls after which no further recording is started.
MaxHistory == 2
\* Samples in the audio of one call of transcribe or resample.
MaxSamples == 5
\* Samples in one chunk of the resampler; chunk_size is 1024 in the code.
ChunkSize == 2

Services == {"Api", "Local"}
\* The string parameter of the "transcription-mode" action; the menu offers
\* "api" and "local", the exported action accepts any string.
ModeParams == {"api", "local", "other"}

Ev(op, out) == [op |-> op, out |-> out]

RemoveAt(s, i) == [k \in 1..(Len(s) - 1) |-> IF k < i THEN s[k] ELSE s[k + 1]]

ReplaceAt(s, i, x) == [s EXCEPT ![i] = x]

(***************************************************************************)
(* local_stt.rs: LocalWhisper::transcribe and resample.                    *)
(*                                                                         *)
(* stt holds one call.  call says which function was entered: transcribe   *)
(* with a WAV buffer and the device rate, or resample with samples and two *)
(* rates.  The sinc filter (rubato) and the inference engine (whisper-rs)  *)
(* are libraries: a filter call is recorded in fed with the chunk it was   *)
(* given, and what it returned is one block of out, opaque but for the     *)
(* call it came from.                                                      *)
(***************************************************************************)
WHISPER_SAMPLE_RATE == 16000

\* i16::MAX, the divisor of the normalisation.
I16Max == 32767

\* Device rates tried.
Rates == {8000, 16000, 48000}

\* What reader.samples::<i16>() yields: Ok with a value, or an Err item.
SampleVals == {[err |-> TRUE, v |-> 0], [err |-> FALSE, v |-> 1], [err |-> FALSE, v |-> -32768]}

SampleSeqs == UNION {[1..n -> SampleVals] : n \in 0..MaxSamples}

\* wav_data: a buffer hound cannot parse, or a container with its samples.
Wavs == {[parses |-> FALSE, items |-> <<>>]} \cup {[parses |-> TRUE, items |-> w] : w \in SampleSeqs}

\* s.unwrap_or(0) as f32 / i16::MAX as f32, kept as the quotient's two terms.
Normalize(s) == [kind |-> "pcm", num |-> (IF s.err THEN 0 ELSE s.v), den |-> I16Max]

Normalized(w) == [k \in 1..Len(w) |-> Normalize(w[k])]

\* The frames one filter call returned.
Block(path, chunk) == [kind |-> "interp", path |-> path, of |-> chunk]

SttRecord(call, wav, rate, to, pc, samples) ==
    [call |-> call, wav |-> wav, rate |-> rate, to |-> to, pc |-> pc,
     samples |-> samples, pos |-> 0, fed |-> <<>>, out |-> <<>>, rs |-> "none",
     audio |-> <<>>, inferred |-> FALSE, result |-> "none"]

\* No call: the value of stt while the interactive program is observed.
SttIdle == SttRecord("none", [parses |-> FALSE, items |-> <<>>], WHISPER_SAMPLE_RATE, WHISPER_SAMPLE_RATE, "done", <<>>)

\* The mutant: the empty check is missing.
EmptySamplesNever(samples) == FALSE

\* samples.is_empty()
EmptySamples(samples) == samples = <<>>

\* The mutant: every buffer is resampled.
SkipResampleNever(rate) == FALSE

\* device_sample_rate == WHISPER_SAMPLE_RATE
SkipResample(rate) == rate = WHISPER_SAMPLE_RATE

\* The mutant: the loop stops one chunk early when the input ends on a
\* chunk boundary.
FullChunkLeftStrict(pos, len) == pos + ChunkSize < len

\* while pos + chunk_size <= input.len()
FullChunkLeft(pos, len) == pos + ChunkSize <= len

\* WavReader::new, then the samples collected and normalised.
SttParse ==
    /\ stt.pc = "parse"
    /\ UNCHANGED <<progVars, ev>>
    /\ stt' = IF ~stt.wav.parses
              THEN [stt EXCEPT !.pc = "done", !.result = "err_parse"]
              ELSE [stt EXCEPT !.pc = "check", !.samples = Normalized(stt.wav.items)]

\* The empty check, then the choice between the samples as they are and
\* resample(&samples, device_sample_rate, WHISPER_SAMPLE_RATE).
SttCheck ==
    /\ stt.pc = "check"
    /\ UNCHANGED <<progVars, ev>>
    /\ stt' = IF EmptySamples(stt.samples)
              THEN [stt EXCEPT !.pc = "done", !.result = "err_empty"]
              ELSE IF SkipResample(stt.rate)
              THEN [stt EXCEPT !.pc = "infer", !.audio = stt.samples]
              ELSE [stt EXCEPT !.pc = "resample", !.rs = "running"]

\* resample returned to its caller: transcribe goes on, or the call is over.
SttReturned(s, rs) ==
    IF rs = "ok"
    THEN (IF s.call = "transcribe"
          THEN [s EXCEPT !.rs = "ok", !.pc = "infer", !.audio = s.out]
          ELSE [s EXCEPT !.rs = "ok", !.pc = "done", !.result = "ok"])
    ELSE [s EXCEPT !.rs = "err", !.pc = "done", !.result = "err_resample"]

\* One iteration of the while loop: resampler.process on a full chunk.
SttProcess ==
    /\ stt.pc = "resample"
    /\ UNCHANGED <<progVars, ev>>
    /\ FullChunkLeft(stt.pos, Len(stt.samples))
    /\ \E ok \in BOOLEAN :
        LET chunk == SubSeq(stt.samples, stt.pos + 1, stt.pos + ChunkSize)
            fed   == [stt EXCEPT !.fed = Append(@, [path |-> "process", chunk |-> chunk])]
        IN stt' = IF ok
                  THEN [fed EXCEPT !.out = Append(@, Block("process", chunk)),
                                   !.pos = @ + ChunkSize]
                  ELSE SttReturned(fed, "err")

\* After the loop: resampler.process_partial on what remains, if anything
\* remains, and Ok(output).
SttPartial ==
    /\ stt.pc = "resample"
    /\ UNCHANGED <<progVars, ev>>
    /\ ~FullChunkLeft(stt.pos, Len(stt.samples))
    /\ IF stt.pos < Len(stt.samples)
       THEN \E ok \in BOOLEAN :
               LET chunk == SubSeq(stt.samples, stt.pos + 1, Len(stt.samples))
                   fed   == [stt EXCEPT !.fed = Append(@, [path |-> "partial", chunk |-> chunk])]
               IN stt' = IF ok
                         THEN SttReturned([fed EXCEPT !.out = Append(@, Block("partial", chunk)),
                                                      !.pos = Len(stt.samples)], "ok")
                         ELSE SttReturned(fed, "err")
       ELSE stt' = SttReturned(stt, "ok")

\* create_state and state.full(params, &audio_16k), then the text collected.
SttInfer ==
    /\ stt.pc = "infer"
    /\ UNCHANGED <<progVars, ev>>
    /\ \E ok \in BOOLEAN :
        stt' = [stt EXCEPT !.pc = "done", !.inferred = TRUE,
                           !.result = IF ok THEN "ok" ELSE "err_infer"]

(***************************************************************************)
(* Startup: build_ui up to the construction of RuntimeState.               *)
(***************************************************************************)
\* The mutant: the persisted mode is not read.
InitialServiceConfigOnly(db, cfg) == cfg

\* The persisted mode overrides the configured default.
InitialService(db, cfg) ==
    CASE db = "local" -> "Local"
      [] db = "api"   -> "Api"
      [] OTHER        -> cfg

\* Config::load refuses to start with the remote default and no credential,
\* and with the local default and no model file.
ConfigLoads(cfg, key, file) ==
    /\ (cfg = "Api" => key)
    /\ (cfg = "Local" => file # "none")

\* LocalWhisper::new is called only in Local mode with the file present; its
\* outcome is loadOk.  An Err leaves None and does not touch active_service.
InitialWhisper(svc, file, loadOk) ==
    IF svc = "Local" /\ file # "none"
    THEN (IF loadOk THEN "Some" ELSE "None")
    ELSE "None"

StartupOutcome(svc, file, loadOk) ==
    IF svc = "Local" /\ file # "none"
    THEN (IF loadOk THEN "load_ok" ELSE "load_err")
    ELSE "no_load"

Init ==
    \E cfg \in Services, key \in BOOLEAN, loadOk \in BOOLEAN :
        /\ cfgService = cfg
        /\ apiKey = key
        /\ dbMode \in {"none", "api", "local", "other"}
        /\ modelFile \in {"none", "complete"}
        /\ partFile \in {"none", "partial"}
        /\ ConfigLoads(cfg, key, modelFile)
        /\ active_service = InitialService(dbMode, cfg)
        /\ local_whisper = InitialWhisper(active_service, modelFile, loadOk)
        /\ downloading = FALSE
        /\ actionState = (IF active_service = "Api" THEN "api" ELSE "local")
        /\ state = "Idle"
        /\ sessions = 0
        /\ trans = <<>>
        /\ loads = <<>>
        /\ dls = <<>>
        /\ historyAppends = 0
        /\ crashed = FALSE
        /\ lastSwitch = "none"
        /\ stt = SttIdle
        /\ ev = Ev("startup", StartupOutcome(active_service, modelFile, loadOk))

(***************************************************************************)
(* button.connect_clicked: the toggle.                                     *)
(***************************************************************************)
\* The mutant: the download guard is missing.
BlockedByDownloadNever == FALSE

\* Guard: block recording during model download.
BlockedByDownload == downloading

\* Guard: Local mode without loaded model.
NoLocalModel == active_service = "Local" /\ local_whisper = "None"

\* The mutant: the credential guard is missing.
NoApiKeyNever == FALSE

\* Guard: API mode without API key.
NoApiKey == active_service = "Api" /\ ~apiKey

\* A job as the dispatch creates it: the thread closure owns the backend's
\* parameters (credential or Arc<LocalWhisper>) from this moment on.
NewTranscription(backend) == [backend |-> backend, st |-> "running", ran |-> "none"]

Blocked(op, why) == ev' = Ev(op, why) /\ UNCHANGED <<progVars, stt>>

ClickedIdle(op) ==
    IF BlockedByDownload THEN Blocked(op, "blocked_download")
    ELSE IF NoLocalModel THEN Blocked(op, "no_local_model")
    ELSE IF NoApiKey THEN Blocked(op, "no_api_key")
    ELSE \E started \in BOOLEAN :
            IF started /\ historyAppends < MaxHistory
            THEN /\ state' = "Recording"
                 /\ sessions' = sessions + 1
                 /\ ev' = Ev(op, "started")
                 /\ UNCHANGED <<active_service, local_whisper, downloading, actionState,
                                apiKey, cfgService, dbMode, modelFile, partFile, trans,
                                loads, dls, historyAppends, crashed, lastSwitch, stt>>
            ELSE Blocked(op, "start_failed")

\* The mutant: the failed stop leaves the Processing state assigned before it.
StopFailedStateStuck == "Processing"

\* The failed stop: *state.borrow_mut() = State::Idle; return.
StopFailedState == "Idle"

\* rec.stop() is called first; on Err the handler returns to Idle, on Ok it
\* dispatches the audio to the backend that is active now.
ClickedRecording(op) ==
    \E stopped \in BOOLEAN :
        /\ sessions' = (IF sessions > 0 THEN sessions - 1 ELSE 0)
        /\ UNCHANGED <<active_service, local_whisper, downloading, actionState, apiKey,
                       cfgService, dbMode, modelFile, partFile, loads, dls, historyAppends,
                       lastSwitch, stt>>
        /\ IF ~stopped
           THEN /\ state' = StopFailedState
                /\ ev' = Ev(op, "stop_failed")
                /\ UNCHANGED <<trans, crashed>>
           ELSE /\ state' = "Processing"
                /\ IF \/ active_service = "Api" /\ ~apiKey
                      \/ active_service = "Local" /\ local_whisper = "None"
                   THEN \* api_key.clone().unwrap() / local_whisper.clone().unwrap()
                        /\ crashed' = TRUE
                        /\ ev' = Ev(op, "panic")
                        /\ UNCHANGED trans
                   ELSE /\ trans' = Append(trans, NewTranscription(active_service))
                        /\ ev' = Ev(op, "dispatched")
                        /\ UNCHANGED crashed

\* The mutant: a click while Processing is handled like one while Recording.
ClickedProcessingAsRecording(op) == ClickedRecording(op)

\* The mutant: a click while Processing cancels the episode.
ClickedProcessingCancels(op) ==
    /\ state' = "Idle"
    /\ ev' = Ev(op, "processing")
    /\ UNCHANGED <<active_service, local_whisper, downloading, actionState, apiKey,
                   cfgService, dbMode, modelFile, partFile, sessions, trans, loads, dls,
                   historyAppends, crashed, lastSwitch, stt>>

\* State::Processing => {}
ClickedProcessing(op) == Blocked(op, "processing")

Clicked(op) ==
    CASE state = "Idle"       -> ClickedIdle(op)
      [] state = "Recording"  -> ClickedRecording(op)
      [] state = "Processing" -> ClickedProcessing(op)

\* The mic button.
Toggle == ~crashed /\ Clicked("toggle")

\* The mutant: the "record" action clicks the button in every state.
RecordActionUnguarded == ~crashed /\ Clicked("record")

\* The "record" action clicks the button only in Idle.
RecordAction ==
    /\ ~crashed
    /\ IF state = "Idle" THEN Clicked("record") ELSE Blocked("record", "ignored")

\* The "stop" action clicks the button only in Recording.
StopAction ==
    /\ ~crashed
    /\ IF state = "Recording" THEN Clicked("stop") ELSE Blocked("stop", "ignored")

\* The Escape shortcut clicks the button only in Recording.
EscKey ==
    /\ ~crashed
    /\ IF state = "Recording" THEN Clicked("esc") ELSE Blocked("esc", "ignored")

ClickOps == {"toggle", "record", "stop", "esc"}

(***************************************************************************)
(* mode_action.connect_activate: the backend switch.                       *)
(***************************************************************************)
ModeOp(chosen) ==
    CASE chosen = "api"   -> "mode_api"
      [] chosen = "local" -> "mode_local"
      [] OTHER            -> "mode_other"

ModeOps == {"mode_api", "mode_local", "mode_other"}

\* The mutant: the recording/processing guard is missing.
SwitchBlockedByStateNever == FALSE

\* Guard: block mode switch during recording/processing.
SwitchBlockedByState == state # "Idle"

\* Guard: block mode switch during download.
SwitchBlockedByDownload == downloading

CurrentMode == IF active_service = "Api" THEN "api" ELSE "local"

\* The mutant: the same-mode check is missing.
SameModeNever(chosen) == FALSE

\* chosen == current
SameMode(chosen) == chosen = CurrentMode

NewLoad == [st |-> "running"]

NewDownload == [pc |-> "request", chan |-> <<>>, n |-> 0, err |-> "none"]

\* The mutant: the model file is never deleted.
RemoveModelFileNever(removed) == modelFile

\* remove_file on the model path; the switch goes on when it fails.
RemoveModelFile(removed) ==
    IF modelFile # "none" /\ removed THEN "none" ELSE modelFile

SwitchToApiOutcome(removed) ==
    CASE modelFile = "none" -> "switched_no_file"
      [] removed            -> "switched_removed"
      [] OTHER              -> "switched_rm_failed"

switch_to_api(op) ==
    \E removed \in BOOLEAN :
        /\ active_service' = "Api"
        /\ local_whisper' = "None"
        /\ modelFile' = RemoveModelFile(removed)
        /\ dbMode' = "api"
        /\ actionState' = "api"
        /\ lastSwitch' = SwitchToApiOutcome(removed)
        /\ ev' = Ev(op, SwitchToApiOutcome(removed))
        /\ UNCHANGED <<state, downloading, apiKey, cfgService, partFile, sessions,
                       trans, loads, dls, historyAppends, crashed, stt>>

\* load_whisper_model: spawn the load thread and its poll.
StartLoad(ls) == Append(ls, NewLoad)

\* The values lastSwitch takes after switch_to_api; switch_to_local sets
\* "local", and "none" is no accepted switch yet.
ApiSwitches == {"switched_no_file", "switched_removed", "switched_rm_failed"}

\* The mutant: the existence check always finds a file.
ModelExistsAlways == TRUE

\* Path::new(&config.whisper_model_path).exists()
ModelExists == modelFile # "none"

switch_to_local(op) ==
    /\ Len(loads) < MaxLoads
    /\ active_service' = "Local"
    /\ actionState' = "local"
    /\ dbMode' = "local"
    /\ lastSwitch' = "local"
    /\ IF ModelExists
       THEN /\ loads' = StartLoad(loads)
            /\ ev' = Ev(op, "load_started")
            /\ UNCHANGED <<downloading, dls>>
       ELSE /\ downloading' = TRUE
            /\ dls' = Append(dls, NewDownload)
            /\ ev' = Ev(op, "download_started")
            /\ UNCHANGED loads
    /\ UNCHANGED <<state, local_whisper, apiKey, cfgService, modelFile, partFile,
                   sessions, trans, historyAppends, crashed, stt>>

ModeActivate(chosen) ==
    /\ ~crashed
    /\ IF SwitchBlockedByState THEN Blocked(ModeOp(chosen), "blocked_state")
       ELSE IF SwitchBlockedByDownload THEN Blocked(ModeOp(chosen), "blocked_download")
       ELSE IF SameMode(chosen) THEN Blocked(ModeOp(chosen), "same")
       ELSE IF chosen = "api" THEN switch_to_api(ModeOp(chosen))
       ELSE switch_to_local(ModeOp(chosen))

(***************************************************************************)
(* Transcription thread and its result poll.                               *)
(***************************************************************************)
\* The mutant: the thread reads the active backend when it runs.
ExecBackendReread(job) == active_service

\* The backend the thread runs: the one its closure captured at dispatch.
ExecBackend(job) == job.backend

\* The thread sends Ok or Err, or ends without sending (a panic drops tx).
TransThread(i) ==
    /\ ~crashed
    /\ i \in 1..Len(trans)
    /\ trans[i].st = "running"
    /\ \E r \in {"ok", "err", "dead"} :
        /\ trans' = ReplaceAt(trans, i, [trans[i] EXCEPT !.st = r, !.ran = ExecBackend(trans[i])])
        /\ ev' = Ev("trans_thread", r)
    /\ UNCHANGED <<state, active_service, local_whisper, downloading, actionState, apiKey,
                   cfgService, dbMode, modelFile, partFile, sessions, loads, dls,
                   historyAppends, crashed, lastSwitch, stt>>

\* The mutant: the poll goes on after it applied a result, and then finds
\* the channel closed.
ConsumedKept(i) == ReplaceAt(trans, i, [trans[i] EXCEPT !.st = "dead"])

\* ControlFlow::Break: the poll ends and its receiver is dropped.
Consumed(i) == RemoveAt(trans, i)

\* The mutant: the transcript is stored only when the clipboard took it.
AppendedIfCopied(copied) == IF copied THEN historyAppends + 1 ELSE historyAppends

\* db.insert(&text) runs before copy_to_clipboard(&text) is tried.
Appended(copied) == historyAppends + 1

\* The mutant: a closed channel is polled again, like an empty one.
TransClosedContinue(i) ==
    /\ ev' = Ev("trans_poll", "empty")
    /\ UNCHANGED <<state, trans, historyAppends>>

\* Err(TryRecvError::Disconnected): back to Idle, Break.
TransClosed(i) ==
    /\ state' = "Idle"
    /\ trans' = Consumed(i)
    /\ ev' = Ev("trans_poll", "closed")
    /\ UNCHANGED historyAppends

TransPoll(i) ==
    /\ ~crashed
    /\ i \in 1..Len(trans)
    /\ UNCHANGED <<active_service, local_whisper, downloading, actionState, apiKey,
                   cfgService, dbMode, modelFile, partFile, sessions, loads, dls, crashed,
                   lastSwitch, stt>>
    /\ CASE trans[i].st = "running" ->
                \* TryRecvError::Empty: ControlFlow::Continue
                /\ ev' = Ev("trans_poll", "empty")
                /\ UNCHANGED <<state, trans, historyAppends>>
         [] trans[i].st = "ok" ->
                \E copied \in BOOLEAN :
                    /\ historyAppends' = Appended(copied)
                    /\ state' = "Idle"
                    /\ trans' = Consumed(i)
                    /\ ev' = Ev("trans_poll", IF copied THEN "copied" ELSE "clipboard_err")
         [] trans[i].st = "err" ->
                /\ state' = "Idle"
                /\ trans' = Consumed(i)
                /\ ev' = Ev("trans_poll", "error")
                /\ UNCHANGED historyAppends
         [] trans[i].st = "dead" -> TransClosed(i)

(***************************************************************************)
(* Model-load thread and its result poll (load_whisper_model).             *)
(***************************************************************************)
\* LocalWhisper::new(&model_path): an absent file cannot load; a present one
\* loads, is rejected, or the thread ends without sending.
LoadResults == IF modelFile = "complete" THEN {"ok", "err", "dead"} ELSE {"err", "dead"}

LoadThread(i) ==
    /\ ~crashed
    /\ i \in 1..Len(loads)
    /\ loads[i].st = "running"
    /\ \E r \in LoadResults :
        /\ loads' = ReplaceAt(loads, i, [loads[i] EXCEPT !.st = r])
        /\ ev' = Ev("load_thread", r)
    /\ UNCHANGED <<state, active_service, local_whisper, downloading, actionState, apiKey,
                   cfgService, dbMode, modelFile, partFile, sessions, trans, dls,
                   historyAppends, crashed, lastSwitch, stt>>

\* Ok(Err(e)) and Err(Disconnected): revert to API.
LoadFailed(i, out) ==
    /\ active_service' = "Api"
    /\ actionState' = "api"
    /\ loads' = RemoveAt(loads, i)
    /\ ev' = Ev("load_poll", out)
    /\ UNCHANGED local_whisper

LoadPoll(i) ==
    /\ ~crashed
    /\ i \in 1..Len(loads)
    /\ UNCHANGED <<state, downloading, apiKey, cfgService, dbMode, modelFile, partFile,
                   sessions, trans, dls, historyAppends, crashed, lastSwitch, stt>>
    /\ CASE loads[i].st = "running" ->
                /\ ev' = Ev("load_poll", "empty")
                /\ UNCHANGED <<active_service, local_whisper, actionState, loads>>
         [] loads[i].st = "ok" ->
                /\ local_whisper' = "Some"
                /\ loads' = RemoveAt(loads, i)
                /\ ev' = Ev("load_poll", "loaded")
                /\ UNCHANGED <<active_service, actionState>>
         [] loads[i].st = "err" -> LoadFailed(i, "load_err")
         [] loads[i].st = "dead" -> LoadFailed(i, "closed")

(***************************************************************************)
(* Download thread and its message poll (download_and_load_model).         *)
(***************************************************************************)
Msg(t, n) == [t |-> t, n |-> n]

\* A step of the closure returned Err: the closure is left with the error.
DlFail(i, why) == ReplaceAt(dls, i, [dls[i] EXCEPT !.pc = "failed", !.err = why])

\* The mutant: the error path leaves the .part file behind.
CleanedPartKept == partFile

\* The .part file after the error path's remove_file.
CleanedPart == "none"

\* The mutant: the body is written straight to the model path.
CreateTargetModel == "model"

\* std::fs::File::create(&part_path): the file the body is written to.
CreateTarget == "part"

DlThread(i) ==
    /\ ~crashed
    /\ i \in 1..Len(dls)
    /\ UNCHANGED <<state, active_service, local_whisper, downloading, actionState, apiKey,
                   cfgService, dbMode, sessions, trans, loads, historyAppends, crashed,
                   lastSwitch, stt>>
    /\ CASE dls[i].pc = "request" ->
                \* Client::new().get(url).send(), then the status check.  Client::new
                \* panics when the TLS backend cannot be initialised.
                \E r \in {"ok", "request", "status", "dead"} :
                    /\ dls' = (CASE r = "ok"   -> ReplaceAt(dls, i, [dls[i] EXCEPT !.pc = "create"])
                                 [] r = "dead" -> ReplaceAt(dls, i, [dls[i] EXCEPT !.pc = "dead"])
                                 [] OTHER      -> DlFail(i, r))
                    /\ ev' = Ev("dl_thread", r)
                    /\ UNCHANGED <<modelFile, partFile>>
         [] dls[i].pc = "create" ->
                \E ok \in BOOLEAN :
                    IF ok
                    THEN /\ partFile' = (IF CreateTarget = "part" THEN "partial" ELSE partFile)
                         /\ modelFile' = (IF CreateTarget = "part" THEN modelFile ELSE "partial")
                         /\ dls' = ReplaceAt(dls, i, [dls[i] EXCEPT !.pc = "read"])
                         /\ ev' = Ev("dl_thread", "created")
                    ELSE /\ dls' = DlFail(i, "create")
                         /\ ev' = Ev("dl_thread", "create")
                         /\ UNCHANGED <<modelFile, partFile>>
         [] dls[i].pc = "read" ->
                \E r \in {"data", "eof", "read"} :
                    /\ r = "data" => dls[i].n < MaxChunks
                    /\ dls' = (CASE r = "data" -> ReplaceAt(dls, i, [dls[i] EXCEPT !.pc = "write"])
                                 [] r = "eof"  -> ReplaceAt(dls, i, [dls[i] EXCEPT !.pc = "rename"])
                                 [] OTHER      -> DlFail(i, "read"))
                    \* At n == 0 every byte of the body is in the .part file.
                    /\ partFile' = (IF r = "eof" /\ partFile # "none" THEN "complete" ELSE partFile)
                    /\ ev' = Ev("dl_thread", r)
                    /\ UNCHANGED modelFile
         [] dls[i].pc = "write" ->
                \E ok \in BOOLEAN :
                    /\ dls' = (IF ok
                               THEN ReplaceAt(dls, i,
                                        [dls[i] EXCEPT !.pc = "read", !.n = @ + 1,
                                                       !.chan = Append(@, Msg("Progress", dls[i].n + 1))])
                               ELSE DlFail(i, "write"))
                    /\ ev' = Ev("dl_thread", IF ok THEN "written" ELSE "write")
                    /\ UNCHANGED <<modelFile, partFile>>
         [] dls[i].pc = "rename" ->
                \E ok \in BOOLEAN :
                    IF ok /\ partFile # "none"
                    THEN /\ modelFile' = partFile
                         /\ partFile' = "none"
                         /\ dls' = ReplaceAt(dls, i, [dls[i] EXCEPT !.pc = "renamed"])
                         /\ ev' = Ev("dl_thread", "renamed")
                    ELSE /\ dls' = DlFail(i, "rename")
                         /\ ev' = Ev("dl_thread", "rename")
                         /\ UNCHANGED <<modelFile, partFile>>
         [] dls[i].pc = "renamed" ->
                \* Ok(()) => tx.send(DownloadMsg::Done)
                /\ dls' = ReplaceAt(dls, i, [dls[i] EXCEPT !.pc = "end",
                                                            !.chan = Append(@, Msg("Done", 0))])
                /\ ev' = Ev("dl_thread", "done_sent")
                /\ UNCHANGED <<modelFile, partFile>>
         [] dls[i].pc = "failed" ->
                \* Err(e) => remove_file(&part_path); tx.send(DownloadMsg::Error(e))
                /\ partFile' = CleanedPart
                /\ dls' = ReplaceAt(dls, i, [dls[i] EXCEPT !.pc = "end",
                                                            !.chan = Append(@, Msg("Error", 0))])
                /\ ev' = Ev("dl_thread", "error_sent")
                /\ UNCHANGED modelFile
         [] dls[i].pc \in {"end", "dead"} -> FALSE

\* The mutant: the poll acts on the first pending message and drops the rest.
LastMsgFirst(chan) == IF chan = <<>> THEN Msg("None", 0) ELSE chan[1]

\* Drain all pending messages, keep the last one.
LastMsg(chan) == IF chan = <<>> THEN Msg("None", 0) ELSE chan[Len(chan)]

DlPoll(i) ==
    /\ ~crashed
    /\ i \in 1..Len(dls)
    /\ UNCHANGED <<state, local_whisper, apiKey, cfgService, dbMode, modelFile, partFile,
                   sessions, trans, historyAppends, crashed, lastSwitch, stt>>
    /\ LET last == LastMsg(dls[i].chan) IN
       CASE last.t = "None" ->
                \* nothing pending (an ended thread's closed channel included): Continue
                /\ ev' = Ev("dl_poll", "empty")
                /\ UNCHANGED <<active_service, downloading, actionState, loads, dls>>
         [] last.t = "Progress" ->
                /\ dls' = ReplaceAt(dls, i, [dls[i] EXCEPT !.chan = <<>>])
                /\ ev' = Ev("dl_poll", "progress")
                /\ UNCHANGED <<active_service, downloading, actionState, loads>>
         [] last.t = "Done" ->
                /\ downloading' = FALSE
                /\ loads' = StartLoad(loads)
                /\ dls' = RemoveAt(dls, i)
                /\ ev' = Ev("dl_poll", "done")
                /\ UNCHANGED <<active_service, actionState>>
         [] last.t = "Error" ->
                /\ downloading' = FALSE
                /\ active_service' = "Api"
                /\ actionState' = "api"
                /\ dls' = RemoveAt(dls, i)
                /\ ev' = Ev("dl_poll", "error")
                /\ UNCHANGED loads

(***************************************************************************)
(* The system.                                                             *)
(***************************************************************************)
Next ==
    \/ Toggle
    \/ RecordAction
    \/ StopAction
    \/ EscKey
    \/ \E chosen \in ModeParams : ModeActivate(chosen)
    \/ \E i \in 1..Len(trans) : TransThread(i)
    \/ \E i \in 1..Len(trans) : TransPoll(i)
    \/ \E i \in 1..Len(loads) : LoadThread(i)
    \/ \E i \in 1..Len(loads) : LoadPoll(i)
    \/ \E i \in 1..Len(dls) : DlThread(i)
    \/ \E i \in 1..Len(dls) : DlPoll(i)

Spec == Init /\ [][Next]_vars

\* Scheduling: a spawned thread runs to its end, and a glib timeout callback
\* that returned Continue is called again.
Fairness ==
    /\ WF_vars(\E i \in 1..Len(trans) : TransThread(i))
    /\ WF_vars(\E i \in 1..Len(trans) : TransPoll(i))
    /\ WF_vars(\E i \in 1..Len(loads) : LoadThread(i))
    /\ WF_vars(\E i \in 1..Len(loads) : LoadPoll(i))
    /\ WF_vars(\E i \in 1..Len(dls) : DlThread(i))
    /\ WF_vars(\E i \in 1..Len(dls) : DlPoll(i))

FairSpec == Spec /\ Fairness

\* A user who asks for a backend switch only when no model load is
\* outstanding; everything else as in Next.
PatientNext ==
    \/ Toggle
    \/ RecordAction
    \/ StopAction
    \/ EscKey
    \/ \E chosen \in ModeParams : loads = <<>> /\ ModeActivate(chosen)
    \/ \E i \in 1..Len(trans) : TransThread(i)
    \/ \E i \in 1..Len(trans) : TransPoll(i)
    \/ \E i \in 1..Len(loads) : LoadThread(i)
    \/ \E i \in 1..Len(loads) : LoadPoll(i)
    \/ \E i \in 1..Len(dls) : DlThread(i)
    \/ \E i \in 1..Len(dls) : DlPoll(i)

PatientSpec == Init /\ [][PatientNext]_vars /\ Fairness

\* The interactive program at rest, while one call of local_stt.rs is observed.
MainAtRest ==
    /\ cfgService = "Api"
    /\ apiKey = TRUE
    /\ dbMode = "none"
    /\ modelFile = "none"
    /\ partFile = "none"
    /\ active_service = "Api"
    /\ local_whisper = "None"
    /\ downloading = FALSE
    /\ actionState = "api"
    /\ state = "Idle"
    /\ sessions = 0
    /\ trans = <<>>
    /\ loads = <<>>
    /\ dls = <<>>
    /\ historyAppends = 0
    /\ crashed = FALSE
    /\ lastSwitch = "none"
    /\ ev = Ev("startup", "no_load")

\* A call of transcribe(wav_data, device_sample_rate), or a call of
\* resample(input, from_rate, to_rate), on any input within the bounds.
SttInit ==
    /\ MainAtRest
    /\ \/ \E w \in Wavs, r \in Rates :
            stt = SttRecord("transcribe", w, r, WHISPER_SAMPLE_RATE, "parse", <<>>)
       \/ \E w \in SampleSeqs, r \in Rates, t \in Rates :
            stt = [SttRecord("resample", [parses |-> FALSE, items |-> <<>>], r, t, "resample", Normalized(w))
                     EXCEPT !.rs = "running"]

SttNext ==
    \/ SttParse
    \/ SttCheck
    \/ SttProcess
    \/ SttPartial
    \/ SttInfer

SttSpec == SttInit /\ [][SttNext]_vars

(***************************************************************************)
(* Vocabulary of the properties.                                           *)
(***************************************************************************)
RunningTranscriptions == {i \in 1..Len(trans) : trans[i].st = "running"}

RunningLoads == {i \in 1..Len(loads) : loads[i].st = "running"}

RunningDownloads == {i \in 1..Len(dls) : dls[i].pc \notin {"end", "dead"}}

\* Background operations whose thread has not finished.
Outstanding ==
    Cardinality(RunningTranscriptions) + Cardinality(RunningLoads)
        + Cardinality(RunningDownloads)

\* The last step was switch_to_api.
SwitchedToApi ==
    /\ ev.op = "mode_api"
    /\ ev.out \in {"switched_no_file", "switched_removed", "switched_rm_failed"}

\* The last step saw a model load fail: at startup, or in the load poll.
LoadFailureObserved ==
    \/ ev = Ev("startup", "load_err")
    \/ ev = Ev("load_poll", "load_err")
    \/ ev = Ev("load_poll", "closed")

(***************************************************************************)
(* C1..C10                                                                 *)
(***************************************************************************)
\* C1: a toggle (button, record, stop or Escape) received in Idle while a
\* download is in progress leaves the state Idle and starts no capture.
C1_NoRecordingWhileDownloading ==
    [][(ev'.op \in ClickOps /\ downloading /\ state = "Idle")
          => (state' = "Idle" /\ sessions' = sessions)]_vars

\* C1 witness: a toggle arrived during a download with every other guard of
\* the Idle branch satisfied.
C1_Witness ==
    /\ ev = Ev("toggle", "blocked_download")
    /\ downloading
    /\ state = "Idle"
    /\ active_service = "Local"
    /\ local_whisper = "Some"

\* C2: a backend-switch request received while Recording or Processing, or
\* while a download is in progress, changes nothing: active backend, model
\* handle, model file, persisted mode, and the download and load jobs stay.
C2_SwitchRejectedIsNoOp ==
    [][(ev'.op \in ModeOps /\ (state # "Idle" \/ downloading)) => UNCHANGED progVars]_vars

\* C2 witness: a switch to Remote was requested while recording on a loaded
\* local model.
C2_Witness ==
    /\ ev.op = "mode_api"
    /\ state = "Recording"
    /\ active_service = "Local"
    /\ local_whisper = "Some"
    /\ modelFile # "none"

\* C3: at most one capture session and at most one transcription job exist,
\* and a toggle received while Processing changes nothing.
C3_OneSessionOneTranscription ==
    /\ [](sessions <= 1 /\ Len(trans) <= 1)
    /\ [][(ev'.op \in ClickOps /\ state = "Processing") => UNCHANGED progVars]_vars

\* C3 witness: a toggle arrived while the transcription thread was running.
C3_Witness ==
    /\ ev = Ev("toggle", "processing")
    /\ state = "Processing"
    /\ Len(trans) = 1
    /\ trans[1].st = "running"

\* C4: the job created by Recording -> Processing carries the backend active
\* at that step, and the thread runs on that backend whatever the active
\* backend is when it runs.
C4_BackendCapturedAtDispatch ==
    /\ [](\A i \in 1..Len(trans) : trans[i].ran # "none" => trans[i].ran = trans[i].backend)
    /\ [][Len(trans') > Len(trans) => trans'[Len(trans')].backend = active_service]_vars

\* C4 witness: a transcription ran on Local after the active backend had
\* reverted to Remote.
C4_Witness ==
    \E i \in 1..Len(trans) : trans[i].ran = "Local" /\ active_service = "Api"

\* C5 (as claimed): at most one download, load or transcription thread is
\* outstanding in any reachable state.
C5_OneLongOperation == Outstanding <= 1

\* C6 (as claimed): after switch_to_api the model file does not exist and no
\* model handle is held.
C6_SwitchToApiDeletesModel ==
    SwitchedToApi => (modelFile = "none" /\ local_whisper = "None")

\* C6 (amended): after switch_to_api the active backend is Remote and no
\* model handle is held; the model file does not exist unless deleting it
\* failed.
C6_SwitchToApiDeletesUnlessRemoveFails ==
    SwitchedToApi =>
        /\ active_service = "Api"
        /\ local_whisper = "None"
        /\ (ev.out # "switched_rm_failed" => modelFile = "none")

\* C6 witness: switch_to_api deleted an existing model file.
C6_Witness ==
    /\ ev = Ev("mode_api", "switched_removed")
    /\ modelFile = "none"
    /\ local_whisper = "None"

C8_LoadFailureRevertsToApi ==
    /\ [](LoadFailureObserved => active_service = "Api")
    /\ [][(ev'.op = "load_poll" /\ ev'.out \in {"load_err", "closed"})
             => modelFile' = modelFile]_vars

\* C9: a switch request naming the active backend changes nothing.
C9_SameKindSwitchIsNoOp ==
    [][(\/ ev'.op = "mode_api" /\ active_service = "Api"
        \/ ev'.op = "mode_local" /\ active_service = "Local")
          => UNCHANGED progVars]_vars

\* C9 witness: Local was requested in Idle with Local active, the model
\* loaded and its file on disk, and no download in progress.
C9_Witness ==
    /\ ev = Ev("mode_local", "same")
    /\ state = "Idle"
    /\ ~downloading
    /\ active_service = "Local"
    /\ local_whisper = "Some"
    /\ modelFile # "none"

\* C10: Idle -> Recording is taken only by a toggle, and only with Local
\* active and a model handle present or Remote active and a credential
\* configured; a toggle in Idle whose guard fails, or whose capture fails to
\* start, changes nothing.
C10_StartGuards ==
    /\ [][(state = "Idle" /\ state' = "Recording")
            => /\ ev'.op \in ClickOps
               /\ \/ active_service = "Local" /\ local_whisper = "Some"
                  \/ active_service = "Api" /\ apiKey]_vars
    /\ [][(/\ ev'.op \in ClickOps
           /\ state = "Idle"
           /\ \/ downloading
              \/ active_service = "Local" /\ local_whisper = "None"
              \/ active_service = "Api" /\ ~apiKey
              \/ ev'.out = "start_failed")
            => UNCHANGED progVars]_vars

\* C10 witness: a toggle was refused because Remote is active without a
\* credential.
C10_Witness ==
    /\ ev = Ev("toggle", "no_api_key")
    /\ state = "Idle"
    /\ active_service = "Api"
    /\ ~apiKey
    /\ ~downloading

(***************************************************************************)
(* C11..C20                                                                *)
(***************************************************************************)
\* The result poll returned Break: it applied a result or found the channel closed.
ResultPollEnded ==
    /\ ev.op = "trans_poll"
    /\ ev.out \in {"copied", "clipboard_err", "error", "closed"}

\* C11: the state leaves Processing only for Idle, and only in the step of the
\* result poll that receives the transcription result (success or failure) or
\* finds the channel closed; no toggle, record, stop or Escape, no switch
\* request and no step of a download or a load changes it while Processing.
C11_ProcessingLeftOnlyByResultPoll ==
    [][(state = "Processing" /\ state' # "Processing")
          => (state' = "Idle" /\ ResultPollEnded')]_vars

\* C11 witness: the poll found the channel closed and ended the episode.
C11_Witness ==
    /\ ev = Ev("trans_poll", "closed")
    /\ state = "Idle"
    /\ trans = <<>>

\* C12: when stopping the capturer fails on a toggle received in Recording,
\* the state after the toggle is Idle, no transcription thread is spawned and
\* no result poll is scheduled.
C12_StopFailureReturnsToIdle ==
    [][(state = "Recording" /\ ev'.op \in ClickOps /\ ev'.out = "stop_failed")
          => (state' = "Idle" /\ trans' = trans /\ ~crashed')]_vars

\* C12 witness: the toggle that ended a capture found the capturer failing.
C12_Witness ==
    /\ ev = Ev("toggle", "stop_failed")
    /\ state = "Idle"
    /\ trans = <<>>
    /\ sessions = 0

\* C13: every Processing episode eventually returns to Idle, given that the
\* transcription thread eventually sends its result or ends (FairSpec): a
\* success, a failure and a closed channel all lead to Idle.
C13_ProcessingReturnsToIdle ==
    (state = "Processing" /\ ~crashed) ~> (state = "Idle")

\* C13 witness: an episode ended in Idle on a failure the thread had sent.
C13_Witness ==
    /\ ev = Ev("trans_poll", "error")
    /\ state = "Idle"
    /\ ~crashed

\* C14: each entry into Processing starts exactly one backend call on one
\* background thread; the interactive thread consumes at most one result for
\* it, and exactly one when the thread sent one; once the result is consumed
\* the poll is gone and nothing more is applied for that episode.
C14_OneCallOneResult ==
    /\ [](~crashed => Len(trans) = (IF state = "Processing" THEN 1 ELSE 0))
    /\ [][(state # "Processing" /\ state' = "Processing" /\ ~crashed')
             => trans' = Append(trans, [backend |-> active_service, st |-> "running",
                                        ran |-> "none"])]_vars
    /\ [][(ev'.op = "trans_poll" /\ Len(trans) = 1 /\ trans[1].st \in {"ok", "err"})
             => (trans' = <<>> /\ state' = "Idle")]_vars
    /\ [][(ev'.op = "trans_poll" /\ trans' # trans)
             => (trans' = <<>> /\ historyAppends' <= historyAppends + 1)]_vars

\* C14 witness: the one result of an episode was consumed and its poll is gone.
C14_Witness ==
    /\ ev = Ev("trans_poll", "copied")
    /\ state = "Idle"
    /\ trans = <<>>
    /\ historyAppends = 1

\* C15: in every reachable state the model path holds no file or one complete
\* file: the download writes only to the .part path, the model path is filled
\* only by renaming a fully received .part file, and a failed rename is
\* reported as a download error.
C15_ModelFileAbsentOrComplete ==
    /\ [](modelFile \in {"none", "complete"})
    /\ [][modelFile' \notin {modelFile, "none"}
             => /\ ev' = Ev("dl_thread", "renamed")
                /\ partFile = "complete"
                /\ partFile' = "none"
                /\ modelFile' = "complete"]_vars
    /\ [](\A i \in 1..Len(dls) :
             dls[i].err = "rename"
                => /\ dls[i].pc \in {"failed", "end"}
                   /\ dls[i].pc = "end"
                        => (dls[i].chan # <<>> /\ dls[i].chan[Len(dls[i].chan)].t = "Error"))

\* C15 witness: a download received the whole body and renamed its .part
\* file onto the model path.
C15_Witness ==
    /\ ev = Ev("dl_thread", "renamed")
    /\ modelFile = "complete"
    /\ partFile = "none"
    /\ downloading

\* C16: no reachable state has a model-load thread running while a model
\* download is in progress.
C16_NoLoadDuringDownload ==
    ~(RunningLoads # {} /\ (downloading \/ RunningDownloads # {}))

\* A step that accepted a switch to Local.
AcceptedLocal == ev'.op \in ModeOps /\ ev'.out \in {"load_started", "download_started"}

\* The step started a download and no load.
StartedDownload ==
    /\ ~downloading /\ downloading'
    /\ Len(dls') = Len(dls) + 1
    /\ dls'[Len(dls')].pc = "request"
    /\ loads' = loads

\* The step started a load and no download.
StartedLoad ==
    /\ Len(loads') = Len(loads) + 1
    /\ loads'[Len(loads')].st = "running"
    /\ dls' = dls
    /\ downloading' = downloading

\* C17 as stated: an accepted switch to Local starts a download exactly when
\* no model file exists at the model path and otherwise starts a load without
\* a download; the first accepted switch to Local after a switch to Remote
\* always starts a download.
C17_SwitchToLocalDownloadsAfterRemote ==
    [][AcceptedLocal
          => /\ (modelFile = "none" => StartedDownload)
             /\ (modelFile # "none" => StartedLoad)
             /\ (lastSwitch \in ApiSwitches => StartedDownload)]_vars

\* C17 amended: as stated, but the first accepted switch to Local after a
\* switch to Remote starts a download unless that switch failed to delete the
\* model file; then the file is still there and a load is started.
C17_SwitchToLocalDownloadsUnlessFileKept ==
    [][AcceptedLocal
          => /\ (modelFile = "none" => StartedDownload)
             /\ (modelFile # "none" => StartedLoad)
             /\ (lastSwitch \in {"switched_no_file", "switched_removed"} => StartedDownload)
             /\ (lastSwitch = "switched_rm_failed" => StartedLoad)]_vars

\* C17 witness: a switch to Local was accepted and started a download,
\* because the model file the program was started with (the configured
\* default is Local) had been deleted by a switch to Remote.
C17_Witness ==
    /\ ev = Ev("mode_local", "download_started")
    /\ lastSwitch = "local"
    /\ cfgService = "Local"
    /\ modelFile = "none"
    /\ downloading
    /\ Len(dls) = 1
    /\ dls[1].pc = "request"
    /\ loads = <<>>

\* No download in progress, no load outstanding, and the active backend
\* usable or reverted: Local with a model handle, or Remote.
Settled ==
    /\ ~downloading
    /\ dls = <<>>
    /\ loads = <<>>
    /\ \/ active_service = "Local" /\ local_whisper = "Some"
       \/ active_service = "Api"

\* The last step accepted a switch to Local.
SwitchedToLocal == ev.op \in ModeOps /\ ev.out \in {"load_started", "download_started"}

\* C18: after an accepted switch to Local the system eventually reaches a
\* state with no download in progress and no load outstanding in which Local
\* is active with a model handle or the active backend is Remote again, also
\* when the download or load thread ends without sending a final message.
C18_SwitchToLocalSettles == SwitchedToLocal ~> Settled

\* C19: the history append (db.insert) is called exactly once for every
\* transcription that returns success and never for a failed one, whether the
\* clipboard copy succeeds or fails; in both clipboard outcomes the state
\* returns to Idle.
C19_HistoryAppendOncePerSuccess ==
    /\ [][(ev'.op = "trans_poll" /\ Len(trans) = 1 /\ trans[1].st = "ok")
             => /\ ev'.out \in {"copied", "clipboard_err"}
                /\ historyAppends' = historyAppends + 1
                /\ state' = "Idle"
                /\ trans' = <<>>]_vars
    /\ [][historyAppends' # historyAppends
             => /\ ev'.op = "trans_poll"
                /\ Len(trans) = 1
                /\ trans[1].st = "ok"]_vars
    /\ [](Len(trans) <= 1)

\* C19 witness: the transcript was stored although the clipboard refused it,
\* and the state is Idle again.
C19_Witness ==
    /\ ev = Ev("trans_poll", "clipboard_err")
    /\ historyAppends = 1
    /\ state = "Idle"
    /\ trans = <<>>

\* C20: each download poll empties the channel and acts only on the last
\* message; the download thread sends Done or Error last and nothing after
\* it, so the drain never discards a terminal message; progress messages are
\* observed in the order they were sent.
C20_DrainKeepsTerminalMessage ==
    /\ [](Len(dls) <= 1)
    /\ [](\A i \in 1..Len(dls) : \A k \in 1..Len(dls[i].chan) :
             /\ dls[i].chan[k].t \in {"Done", "Error"}
                    => (k = Len(dls[i].chan) /\ dls[i].pc = "end")
             /\ dls[i].chan[k].t = "Progress" => dls[i].chan[k].n <= dls[i].n)
    /\ [][(Len(dls) = 1 /\ Len(dls') = 1 /\ Len(dls'[1].chan) > Len(dls[1].chan))
             => /\ dls'[1].chan = Append(dls[1].chan, dls'[1].chan[Len(dls'[1].chan)])
                /\ dls'[1].chan[Len(dls'[1].chan)].t = "Progress"
                      => dls'[1].chan[Len(dls'[1].chan)].n > dls[1].n]_vars
    /\ [][(ev'.op = "dl_poll" /\ Len(dls) = 1)
             => /\ dls' = <<>> \/ dls'[1].chan = <<>>
                /\ ev'.out = (IF dls[1].chan = <<>> THEN "empty"
                              ELSE CASE dls[1].chan[Len(dls[1].chan)].t = "Progress" -> "progress"
                                     [] dls[1].chan[Len(dls[1].chan)].t = "Done"     -> "done"
                                     [] dls[1].chan[Len(dls[1].chan)].t = "Error"    -> "error")
                /\ (\E k \in 1..Len(dls[1].chan) : dls[1].chan[k].t \in {"Done", "Error"})
                      => (dls' = <<>> /\ ~downloading')]_vars

\* C20 witness: a poll acted on the Done that the thread sent last, after
\* the progress messages of a whole body.
C20_Witness ==
    /\ ev = Ev("dl_poll", "done")
    /\ dls = <<>>
    /\ ~downloading
    /\ modelFile = "complete"
    /\ loads # <<>>

(***************************************************************************)
(* C21..C30                                                                *)
(***************************************************************************)
\* A step that accepted a backend switch, to either kind.
AcceptedSwitch ==
    /\ ev'.op \in ModeOps
    /\ ev'.out \in ApiSwitches \cup {"load_started", "download_started"}

C22_MatchingRateSkipsResampling ==
    (stt.call = "transcribe" /\ stt.rate = 16000 /\ (stt.pc = "infer" \/ stt.inferred))
        => /\ stt.audio = stt.samples
           /\ Len(stt.audio) = Len(stt.wav.items)
           /\ \A k \in 1..Len(stt.audio) :
                 stt.audio[k] = [kind |-> "pcm",
                                 num  |-> (IF stt.wav.items[k].err THEN 0 ELSE stt.wav.items[k].v),
                                 den  |-> 32767]
           /\ stt.fed = <<>>
           /\ stt.rs = "none"

\* C22 witness: a recording made at 16000 Hz reached inference.
C22_Witness ==
    /\ stt.call = "transcribe"
    /\ stt.rate = 16000
    /\ stt.inferred
    /\ stt.result = "ok"
    /\ Len(stt.audio) >= 2
    /\ stt.audio[1] # stt.audio[2]

\* C23: transcribe called with audio that holds no sample returns the
\* empty-audio error before any resampling or inference is attempted; the
\* call ends with an error value, not a panic.
C23_EmptyAudioRejected ==
    (stt.call = "transcribe" /\ stt.wav.parses /\ stt.wav.items = <<>>)
        => /\ stt.pc \in {"parse", "check", "done"}
           /\ stt.pc = "done" => stt.result = "err_empty"
           /\ stt.fed = <<>>
           /\ stt.rs = "none"
           /\ ~stt.inferred

\* C23 witness: a container without samples, recorded at a rate that would
\* have been resampled, was rejected.
C23_Witness ==
    /\ stt.call = "transcribe"
    /\ stt.wav.parses
    /\ stt.wav.items = <<>>
    /\ stt.rate = 48000
    /\ stt.pc = "done"
    /\ stt.result = "err_empty"

\* The number of filter calls a whole input of n samples takes.
CallsFor(n) == (n \div ChunkSize) + (IF n % ChunkSize # 0 THEN 1 ELSE 0)

\* C29: the resampler feeds every input sample to the filter exactly once
\* and in order: floor(len / chunk) full chunks through the regular path,
\* then one partial chunk of len mod chunk samples through the flush path
\* exactly when that remainder is not zero; an input shorter than a chunk
\* goes through the flush path only, and an empty input gives an empty
\* output without error.
C29_ResamplerFeedsEachSampleOnce ==
    LET n == Len(stt.samples) IN
    /\ Len(stt.fed) <= CallsFor(n)
    /\ \A k \in 1..Len(stt.fed) :
          /\ stt.fed[k].path = (IF k <= n \div ChunkSize THEN "process" ELSE "partial")
          /\ stt.fed[k].chunk =
                SubSeq(stt.samples, (k - 1) * ChunkSize + 1,
                       IF k * ChunkSize <= n THEN k * ChunkSize ELSE n)
    /\ stt.rs = "ok" => (Len(stt.fed) = CallsFor(n) /\ Len(stt.out) = CallsFor(n))
    /\ (stt.call = "resample" /\ n = 0 /\ stt.pc = "done")
          => (stt.result = "ok" /\ stt.out = <<>> /\ stt.fed = <<>>)

\* C29 witness: an input of two full chunks and a remainder went through
\* the regular path twice and the flush path once.
C29_Witness ==
    /\ stt.rs = "ok"
    /\ Len(stt.samples) = 2 * ChunkSize + 1
    /\ Len(stt.fed) = 3
    /\ stt.fed[3].path = "partial"
    /\ Len(stt.fed[3].chunk) = 1

\* C24: whenever a toggle in Recording dispatches a transcription, the
\* prerequisite of the backend read at that moment is present (a credential
\* for Remote, a model handle for Local), so neither unwrap at the dispatch
\* panics, under any interleaving of switches, recordings and download or
\* load completions.
C24_DispatchNeverPanics ==
    /\ ~crashed
    /\ state = "Recording"
          => \/ active_service = "Api" /\ apiKey
             \/ active_service = "Local" /\ local_whisper = "Some"

\* C25: the active backend does not change between the start of a recording
\* and its dispatch, that is, while the state is Recording: audio recorded
\* while Local is active is never sent to the remote endpoint.
C25_BackendFixedWhileRecording ==
    [][state = "Recording" => active_service' = active_service]_vars

\* C26: in every reachable state in which the active backend is Remote no
\* model handle is held, also when a load started before the switch to
\* Remote completes after it.
C26_NoHandleWhileRemote ==
    active_service = "Api" => local_whisper = "None"

\* C27: whenever the active backend is Local and no download or model load
\* is outstanding (the state right after startup included), a model handle
\* is present.
C27_HandleWhenLocalAndQuiet ==
    (active_service = "Local" /\ ~downloading /\ dls = <<>> /\ loads = <<>>)
        => local_whisper = "Some"

\* C28: whenever no download or model load is outstanding and a
\* transcription mode has been persisted, the persisted mode equals the
\* active backend, also after an automatic revert to Remote that follows a
\* download or load failure.
C28_PersistedModeIsActive ==
    (~downloading /\ dls = <<>> /\ loads = <<>> /\ dbMode \in {"api", "local"})
        => dbMode = (IF active_service = "Api" THEN "api" ELSE "local")

\* C30: the "record" action clicks the button only in Idle, the "stop"
\* action and the Escape key only in Recording: "record" never stops a
\* recording, "stop" and Escape never start one, and none of the three
\* changes any state while Processing.
C30_ActionsGatedByState ==
    /\ [][(ev'.op = "record" /\ state # "Idle") => UNCHANGED progVars]_vars
    /\ [][(ev'.op \in {"stop", "esc"} /\ state # "Recording") => UNCHANGED progVars]_vars
    /\ [][ev'.op = "record" => (sessions' >= sessions /\ trans' = trans)]_vars
    /\ [][ev'.op \in {"stop", "esc"} => (sessions' <= sessions /\ state' # "Recording")]_vars

\* C30 witness: the "record" action arrived during a recording and was
\* ignored.
C30_Witness ==
    /\ ev = Ev("record", "ignored")
    /\ state = "Recording"
    /\ sessions = 1
    /\ trans = <<>>

====
